---- MODULE Spec2Model ----
(***************************************************************************)
(* DevClimate backend (src/server.js): an Express server over two MongoDB  *)
(* collections, users and weather_searches, with self-issued JWT bearer    *)
(* tokens.  Every route handler is an action; a handler that awaits        *)
(* between two store operations (register: findOne ... insertOne, weather  *)
(* lookup: fetch ... insertOne) is two actions, so that other requests     *)
(* interleave at the await.  A handler with a single store operation is    *)
(* one action, linearised at that operation.                               *)
(***************************************************************************)
EXTENDS Integers, Sequences, FiniteSets, TLC

VARIABLES
  users,        \* db.collection('users'): a set of user documents
  searches,     \* db.collection('weather_searches'): a set of documents
  nextSearchId, \* the next _id the driver generates for weather_searches
  now,          \* the wall clock (new Date(), jwt's clock), in days
  inflight,     \* per connection: the handler suspended at an await, or Idle
  resp,         \* the response being sent (res.status(..).json(..)), if any
  deleted200    \* history: per search id, the DELETEs answered 200

vars == <<users, searches, nextSearchId, now, inflight, resp, deleted200>>

(***************************************************************************)
(* Bounds of the model.                                                    *)
(***************************************************************************)
MaxUsers == 2
MaxSearches == 2
MaxTime == 12

(***************************************************************************)
(* Program constants.                                                      *)
(***************************************************************************)
TokenTTL == 7            \* expiresIn: '7d'
MinPasswordLength == 6   \* password.length < 6
DefaultPage == 1         \* parseInt(req.query.page) || 1
DefaultLimit == 5        \* parseInt(req.query.limit) || 5

\* The clock is sampled: successive readings are TickStep days apart, so a
\* token is still valid one reading after it was issued and expired two later.
TickStep == TokenTTL - 1

\* The connections whose handler can be suspended at an await.
Clients == {"c1", "c2"}
OneClient == {"c1"}

(***************************************************************************)
(* Values of request bodies.  A JSON string is the sequence of its         *)
(* characters; a body field can also be missing or a JSON number.          *)
(***************************************************************************)
Str(chars) == [type |-> "string", chars |-> chars]
Num(chars) == [type |-> "number", chars |-> chars]
Undefined == [type |-> "undefined", chars |-> << >>]

\* JavaScript truthiness of a body field (!x): a missing field and the empty
\* string are falsy; the numbers used as inputs are non-zero.
Truthy(v) == v.type # "undefined" /\ v.chars # << >>

\* v.length < n: a number has no length, and undefined < n is false.
LengthLessThan(v, n) == v.type = "string" /\ Len(v.chars) < n

Alice == Str(<<"a", "l", "i", "c", "e">>)
Bob == Str(<<"b", "o", "b">>)
AliceMail == Str(<<"a", "@", "x">>)
BobMail == Str(<<"b", "@", "x">>)
Secret1 == Str(<<"s", "e", "c", "r", "e", "t", "1">>)
Secret2 == Str(<<"s", "e", "c", "r", "e", "t", "2">>)
ShortPw == Str(<<"a", "b", "c", "d", "e">>)
NumberPw == Num(<<"1", "2", "3", "4", "5", "6", "7">>)

(***************************************************************************)
(* ObjectIds.  The driver's ObjectId and its 24-hex-digit string are       *)
(* different values: JSON (a token's userId, a path parameter) carries the *)
(* string, and ObjectId(..) parses it back.                                *)
(***************************************************************************)
ObjectId(n) == [oid |-> n]
ToHexString(o) == [hex |-> o.oid]
NotHex == [str |-> "abc"]
ObjectIdIsValid(s) == "hex" \in DOMAIN s
NewObjectId(s) == [oid |-> s.hex]

(***************************************************************************)
(* bcrypt.  hash is one-way and salted; compare(data, hash) is true        *)
(* exactly for the data that was hashed.  Both reject data that is not a   *)
(* string (the promise rejects, the handler's catch answers 500).          *)
(***************************************************************************)
BcryptAccepts(data) == data.type = "string"
BcryptHash(data) == [bcrypt |-> data.chars]
BcryptCompare(data, hash) == data.chars = hash.bcrypt

(***************************************************************************)
(* jsonwebtoken.  A token is a payload with a signature over that payload  *)
(* under a key; verify accepts a token whose signature was made over its   *)
(* own payload with the secret and whose exp is in the future.             *)
(***************************************************************************)
JwtSecret == "JWT_SECRET"
OtherKey == "attacker-key"
NoToken == [kind |-> "none"]
Sign(payload, key) == [key |-> key, over |-> payload]
JwtSignAt(claims, key, ttl, iat) ==
  LET payload == [userId |-> claims.userId, username |-> claims.username,
                  email |-> claims.email, iat |-> iat, exp |-> iat + ttl]
  IN  [kind |-> "jwt", payload |-> payload, sig |-> Sign(payload, key)]
JwtSign(claims, key, ttl) == JwtSignAt(claims, key, ttl, now)
\* A verify that skips the expiry: jwt.verify(.., { ignoreExpiration: true }).
JwtVerifyIgnoringExpiry(token, key) ==
  /\ token.kind = "jwt"
  /\ token.sig = Sign(token.payload, key)

JwtVerify(token, key) ==
  /\ token.kind = "jwt"
  /\ token.sig = Sign(token.payload, key)
  /\ now < token.payload.exp

NoUser == [kind |-> "none"]
\* The identity claims of req.user, as the responses are observed with them.
Identity(payload) ==
  [userId |-> payload.userId, username |-> payload.username, email |-> payload.email]
NoBody == [kind |-> "none"]
Idle == [op |-> "idle"]

\* A response, observed with the request it answers: status and JSON body
\* (error or message, token, the rest of the body), and the req.user the
\* handler ran with (NoUser when no handler ran).
Response(status, error, token, user, body) ==
  [route |-> "", param |-> NoBody, status |-> status, error |-> error,
   token |-> token, user |-> user, body |-> body]
Fail(status, error, user) == Response(status, error, NoToken, user, NoBody)
To(route, param, response) == [response EXCEPT !.route = route, !.param = param]

\* No response is on its way out.
NoResponse == Fail(0, "", NoUser)

Init ==
  /\ users = {}
  /\ searches = {}
  /\ nextSearchId = 1
  /\ now = 0
  /\ inflight = [c \in Clients |-> Idle]
  /\ resp = NoResponse
  /\ deleted200 = [i \in 1..MaxSearches |-> 0]

(***************************************************************************)
(* POST /api/auth/register                                                 *)
(***************************************************************************)
\* A check of the email alone: findOne({ email }).
ExistingUsersByEmail(username, email) == {u \in users : u.email = email}

\* db.collection('users').findOne({ $or: [{ email }, { username }] }): the
\* documents the filter matches (findOne returns one of them, or null).
ExistingUsers(username, email) ==
  {u \in users : u.email = email \/ u.username = username}

Registering == {c \in Clients : inflight[c].op = "register"}

\* Up to the await of findOne and the branch on its result.
RegisterFindOne(c, username, email, password) ==
  LET body == [username |-> username, email |-> email, password |-> password]
      Reply(r) == resp' = To("register", body, r)
  IN  /\ resp = NoResponse
      /\ inflight[c] = Idle
      /\ IF ~Truthy(username) \/ ~Truthy(email) \/ ~Truthy(password)
         THEN /\ Reply(Fail(400, "Username, email, and password are required", NoUser))
              /\ UNCHANGED inflight
         ELSE IF LengthLessThan(password, MinPasswordLength)
         THEN /\ Reply(Fail(400, "Password must be at least 6 characters long", NoUser))
              /\ UNCHANGED inflight
         ELSE IF ExistingUsers(username, email) # {}
         THEN /\ Reply(Fail(400, "User with this email or username already exists",
                            NoUser))
              /\ UNCHANGED inflight
         ELSE /\ Cardinality(users) + Cardinality(Registering) < MaxUsers
              /\ inflight' = [inflight EXCEPT ![c] = [op |-> "register", body |-> body]]
              /\ UNCHANGED resp
      /\ UNCHANGED <<users, searches, nextSearchId, now, deleted200>>

\* From bcrypt.hash to the response: hash, insertOne, jwt.sign.
RegisterInsertOne(c) ==
  /\ resp = NoResponse
  /\ inflight[c].op = "register"
  /\ inflight' = [inflight EXCEPT ![c] = Idle]
  /\ LET req == inflight[c].body
         insertedId == ObjectId(Cardinality(users) + 1)
         user == [_id |-> insertedId, username |-> req.username, email |-> req.email,
                  password |-> BcryptHash(req.password), createdAt |-> now]
         claims == [userId |-> ToHexString(insertedId), username |-> req.username,
                    email |-> req.email]
         Reply(r) == resp' = To("register", req, r)
     IN  IF ~BcryptAccepts(req.password)
         THEN /\ Reply(Fail(500, "Failed to register user", NoUser))
              /\ UNCHANGED users
         ELSE /\ users' = users \cup {user}
              /\ Reply(Response(201, "User registered successfully",
                         JwtSign(claims, JwtSecret, TokenTTL), NoUser,
                         [id |-> insertedId, username |-> req.username,
                          email |-> req.email]))
  /\ UNCHANGED <<searches, nextSearchId, now, deleted200>>

(***************************************************************************)
(* POST /api/auth/login                                                    *)
(***************************************************************************)
\* The branches of the handler once findOne({ email }) returned `found`
\* (a set: empty for null, else the one document returned).
LoginResponse(found, password) ==
  IF found = {}
  THEN Fail(401, "Invalid email or password", NoUser)
  ELSE LET user == CHOOSE u \in found : TRUE
       IN  IF ~BcryptAccepts(password)
           THEN Fail(500, "Failed to login", NoUser)
           ELSE IF ~BcryptCompare(password, user.password)
           THEN Fail(401, "Invalid email or password", NoUser)
           ELSE Response(200, "Login successful",
                  JwtSign([userId |-> ToHexString(user._id), username |-> user.username,
                           email |-> user.email], JwtSecret, TokenTTL),
                  NoUser,
                  [id |-> user._id, username |-> user.username, email |-> user.email])

\* findOne returns some matching document when several match: the order of
\* an unsorted query is the store's choice.
Login(email, password) ==
  LET body == [email |-> email, password |-> password]
      Reply(r) == resp' = To("login", body, r)
      matching == {u \in users : u.email = email}
  IN  /\ resp = NoResponse
      /\ IF ~Truthy(email) \/ ~Truthy(password)
         THEN Reply(Fail(400, "Email and password are required", NoUser))
         ELSE IF matching = {}
         THEN Reply(LoginResponse({}, password))
         ELSE \E u \in matching : Reply(LoginResponse({u}, password))
      /\ UNCHANGED <<users, searches, nextSearchId, now, inflight, deleted200>>

\* res.json(..) returns: the response has left the server.
Deliver ==
  /\ resp # NoResponse
  /\ resp' = NoResponse
  /\ UNCHANGED <<users, searches, nextSearchId, now, inflight, deleted200>>

Tick ==
  /\ resp = NoResponse
  /\ now + TickStep <= MaxTime
  /\ now' = now + TickStep
  /\ UNCHANGED <<users, searches, nextSearchId, inflight, resp, deleted200>>

(***************************************************************************)
(* authenticateToken                                                       *)
(***************************************************************************)
\* The Authorization header: absent, or its space-separated parts.
NoHeader == [kind |-> "none"]
Word(text) == [kind |-> "word", text |-> text]
Header(parts) == [kind |-> "header", parts |-> parts]
Bearer(token) == Header(<<Word("Bearer"), token>>)

\* authHeader && authHeader.split(' ')[1]
HeaderToken(authHeader) ==
  IF authHeader = NoHeader THEN NoToken
  ELSE IF Len(authHeader.parts) >= 2 THEN authHeader.parts[2]
  ELSE NoToken

\* The middleware's outcome: the response it sends itself (next is not
\* called), or status 0 and req.user when it calls next().
authenticateToken(authHeader) ==
  LET token == HeaderToken(authHeader)
  IN  IF token = NoToken
      THEN [status |-> 401, error |-> "Access token required", user |-> NoUser]
      ELSE IF ~JwtVerify(token, JwtSecret)
      THEN [status |-> 403, error |-> "Invalid or expired token", user |-> NoUser]
      ELSE [status |-> 0, error |-> "", user |-> token.payload]

(***************************************************************************)
(* GET /api/auth/profile                                                   *)
(***************************************************************************)
Profile(authHeader) ==
  LET auth == authenticateToken(authHeader)
      Reply(r) == resp' = To("profile", NoBody, r)
      found == {u \in users : u._id = NewObjectId(auth.user.userId)}
  IN  /\ resp = NoResponse
      /\ IF auth.status # 0
         THEN Reply(Fail(auth.status, auth.error, NoUser))
         ELSE IF found = {}
         THEN Reply(Fail(404, "User not found", Identity(auth.user)))
         ELSE LET user == CHOOSE u \in found : TRUE
              IN  Reply(Response(200, "", NoToken, Identity(auth.user),
                          [_id |-> user._id, username |-> user.username,
                           email |-> user.email, createdAt |-> user.createdAt]))
      /\ UNCHANGED <<users, searches, nextSearchId, now, inflight, deleted200>>

(***************************************************************************)
(* GET /api/weather/current/:city                                          *)
(***************************************************************************)
LookingUp == {c \in Clients : inflight[c].op = "lookup"}

\* Up to the await of fetch(..).
WeatherCurrentFetch(c, authHeader, city) ==
  LET auth == authenticateToken(authHeader)
      Reply(r) == resp' = To("current", NoBody, r)
  IN  /\ resp = NoResponse
      /\ inflight[c] = Idle
      /\ IF auth.status # 0
         THEN /\ Reply(Fail(auth.status, auth.error, NoUser))
              /\ UNCHANGED inflight
         ELSE IF city = ""
         THEN /\ Reply(Fail(400, "City name is required", Identity(auth.user)))
              /\ UNCHANGED inflight
         ELSE /\ (nextSearchId - 1) + Cardinality(LookingUp) < MaxSearches
              /\ inflight' = [inflight EXCEPT ![c] =
                    [op |-> "lookup", user |-> Identity(auth.user), city |-> city]]
              /\ UNCHANGED resp
      /\ UNCHANGED <<users, searches, nextSearchId, now, deleted200>>

\* What the upstream call can come back with: fetch rejects, a non-success
\* status, or a success whose body names the city found.
FetchRejected == [ok |-> FALSE, status |-> 0, name |-> ""]
UpstreamStatus(status) == [ok |-> FALSE, status |-> status, name |-> ""]
UpstreamOk(name) == [ok |-> TRUE, status |-> 200, name |-> name]

\* A check of the 404 alone: weatherResponse.status === 404.
UpstreamNotFound(weatherResponse) == weatherResponse.status = 404

\* !weatherResponse.ok
UpstreamFailed(weatherResponse) == ~weatherResponse.ok

\* From the upstream response to the handler's response.  The document
\* keeps the city the upstream resolved; the measurements it copies
\* (temperature, humidity, ...) play no part in any operation and are left
\* out.
WeatherCurrentSave(c, weatherResponse) ==
  LET req == inflight[c]
      Reply(r) == resp' = To("current", NoBody, r)
      weatherSearch == [_id |-> ObjectId(nextSearchId), userId |-> req.user.userId,
                        city |-> weatherResponse.name, timestamp |-> now]
  IN  /\ resp = NoResponse
      /\ inflight[c].op = "lookup"
      /\ inflight' = [inflight EXCEPT ![c] = Idle]
      /\ IF weatherResponse = FetchRejected
         THEN /\ Reply(Fail(500, "Failed to fetch weather data", req.user))
              /\ UNCHANGED <<searches, nextSearchId>>
         ELSE IF UpstreamFailed(weatherResponse)
         THEN /\ IF weatherResponse.status = 404
                 THEN Reply(Fail(404, "City not found", req.user))
                 ELSE Reply(Fail(500, "Failed to fetch weather data", req.user))
              /\ UNCHANGED <<searches, nextSearchId>>
         ELSE /\ searches' = searches \cup {weatherSearch}
              /\ nextSearchId' = nextSearchId + 1
              /\ Reply(Response(200, "", NoToken, req.user, weatherSearch))
      /\ UNCHANGED <<users, now, deleted200>>

(***************************************************************************)
(* GET /api/weather                                                        *)
(***************************************************************************)
\* parseInt(q) || d.  The query value 0 stands for every value parseInt
\* makes falsy: an absent or non-numeric parameter (NaN) and 0 itself.
ParseIntOr(q, d) == IF q = 0 THEN d ELSE q

\* Math.ceil(a / b) for a >= 0, b >= 1
Ceil(a, b) == (a + b - 1) \div b

\* find({ userId })
FindByUser(userId) == {s \in searches : s.userId = userId}

\* .sort({ timestamp: -1 }): every order of the documents with timestamps
\* descending.  Documents with equal timestamps come in any order, and the
\* store chooses that order anew for each query.
SortByTimestampDesc(docs) ==
  LET n == Cardinality(docs)
  IN  {q \in [1..n -> docs] :
         /\ \A i, j \in 1..n : i # j => q[i] # q[j]
         /\ \A i, j \in 1..n : i < j => q[i].timestamp >= q[j].timestamp}

\* .skip(skip).limit(limit).toArray()
SkipLimit(q, skip, limit) ==
  IF skip >= Len(q) THEN << >>
  ELSE SubSeq(q, skip + 1, IF skip + limit < Len(q) THEN skip + limit ELSE Len(q))

\* The bodies the handler can answer with.  countDocuments and find are
\* answered from the same contents of the collection.
ListBodies(userId, pageQuery, limitQuery) ==
  LET page == ParseIntOr(pageQuery, DefaultPage)
      limit == ParseIntOr(limitQuery, DefaultLimit)
      skip == (page - 1) * limit
      totalSearches == Cardinality(FindByUser(userId))
      totalPages == Ceil(totalSearches, limit)
  IN  {[searches |-> SkipLimit(q, skip, limit), currentPage |-> page,
        totalPages |-> totalPages, totalSearches |-> totalSearches] :
         q \in SortByTimestampDesc(FindByUser(userId))}

WeatherList(authHeader, pageQuery, limitQuery) ==
  LET auth == authenticateToken(authHeader)
      Reply(r) == resp' = To("list", NoBody, r)
  IN  /\ resp = NoResponse
      /\ IF auth.status # 0
         THEN Reply(Fail(auth.status, auth.error, NoUser))
         ELSE \E body \in ListBodies(auth.user.userId, pageQuery, limitQuery) :
                Reply(Response(200, "", NoToken, Identity(auth.user), body))
      /\ UNCHANGED <<users, searches, nextSearchId, now, inflight, deleted200>>

(***************************************************************************)
(* DELETE /api/weather/:searchId                                           *)
(***************************************************************************)
\* A filter without the owner: deleteOne({ _id: new ObjectId(searchId) }).
DeleteFilterAnyOwner(searchId, userId) ==
  {s \in searches : s._id = NewObjectId(searchId)}

\* A filter without the id: deleteMany({ userId: userId }).
DeleteFilterAnyId(searchId, userId) == {s \in searches : s.userId = userId}

\* deleteOne({ _id: new ObjectId(searchId), userId: userId }): the documents
\* the filter matches (at most one, _id being unique).
DeleteFilter(searchId, userId) ==
  {s \in searches : s._id = NewObjectId(searchId) /\ s.userId = userId}

\* A truthy result taken for a deletion: result.acknowledged.
DeletedCountAcknowledged(matched) == 1

\* result.deletedCount
DeletedCount(matched) == Cardinality(matched)

WeatherDelete(authHeader, searchId) ==
  LET auth == authenticateToken(authHeader)
      Reply(r) == resp' = To("delete", searchId, r)
      matched == DeleteFilter(searchId, auth.user.userId)
  IN  /\ resp = NoResponse
      /\ IF auth.status # 0
         THEN /\ Reply(Fail(auth.status, auth.error, NoUser))
              /\ UNCHANGED <<searches, deleted200>>
         ELSE IF ~ObjectIdIsValid(searchId)
         THEN /\ Reply(Fail(400, "Invalid search ID", Identity(auth.user)))
              /\ UNCHANGED <<searches, deleted200>>
         ELSE /\ searches' = searches \ matched
              /\ IF DeletedCount(matched) = 0
                 THEN /\ Reply(Fail(404, "Weather search not found or unauthorized",
                                    Identity(auth.user)))
                      /\ UNCHANGED deleted200
                 ELSE /\ Reply(Response(200, "Weather search deleted successfully",
                                        NoToken, Identity(auth.user), NoBody))
                      /\ deleted200' = [deleted200 EXCEPT ![searchId.hex] = @ + 1]
      /\ UNCHANGED <<users, nextSearchId, now, inflight>>

(***************************************************************************)
(* The requests clients send.                                              *)
(***************************************************************************)
Times == {t \in 0..MaxTime : t % TickStep = 0}

Claims(u) == [userId |-> ToHexString(u._id), username |-> u.username, email |-> u.email]

\* The tokens register and login have handed out so far: users are never
\* changed or removed and login succeeds at any time for a client that knows
\* the password, so these are the tokens of every user from its creation on.
IssuedTokens ==
  {JwtSignAt(Claims(u), JwtSecret, TokenTTL, t) :
     <<u, t>> \in {ut \in users \X Times : ut[1].createdAt <= ut[2] /\ ut[2] <= now}}

\* Tokens an attacker makes now: signed with another key, or a token just
\* issued whose payload is changed to name another user, the signature left
\* as it was.
ForgedTokens == {JwtSignAt(Claims(u), OtherKey, TokenTTL, now) : u \in users}
TamperedTokens ==
  {[JwtSignAt(Claims(u), JwtSecret, TokenTTL, now)
      EXCEPT !.payload.userId = ToHexString(v._id)] :
     <<u, v>> \in {uv \in users \X users : uv[1]._id # uv[2]._id}}

Headers ==
  {NoHeader, Header(<<Word("Bearer")>>), Header(<<Word("Basic"), Word("dXNlcg")>>)}
    \cup {Bearer(t) : t \in IssuedTokens \cup ForgedTokens \cup TamperedTokens}

SearchIds == {ToHexString(ObjectId(i)) : i \in 1..MaxSearches} \cup {NotHex}
\* page and limit: absent (the defaults), or given.
PageQueries == {0, 2}
LimitQueries == {0, 1}
Cities == {"London"}
UpstreamResponses ==
  {FetchRejected, UpstreamStatus(404), UpstreamStatus(401), UpstreamStatus(500)}
    \cup {UpstreamOk(city) : city \in Cities}

Account(username, email, password) ==
  [username |-> username, email |-> email, password |-> password]
Accounts == {Account(Alice, AliceMail, Secret1), Account(Bob, BobMail, Secret1)}
\* Bodies of POST /api/auth/register: the accounts that can be created, and
\* bodies with a short, a numeric or a missing field.
Bodies ==
  {Account(u, e, Secret1) : <<u, e>> \in {Alice, Bob} \X {AliceMail, BobMail}}
    \cup {Account(Alice, AliceMail, ShortPw), Account(Alice, AliceMail, NumberPw),
          Account(Undefined, AliceMail, Secret1), Account(Alice, Undefined, Secret1),
          Account(Alice, AliceMail, Undefined)}

\* Bodies of POST /api/auth/login: the password of an account, another
\* password, a number, or a missing field.
Credentials(email, password) == [email |-> email, password |-> password]
LoginBodies ==
  {Credentials(e, p) : <<e, p>> \in
     {AliceMail, BobMail} \X {Secret1, Secret2, NumberPw}}
    \cup {Credentials(Undefined, Secret1), Credentials(AliceMail, Undefined)}

(***************************************************************************)
(* The whole service: clients register the accounts of Accounts, and one   *)
(* handler at a time is suspended at an await while the other requests     *)
(* are handled.                                                            *)
(***************************************************************************)
Next ==
  \/ \E c \in OneClient, a \in Accounts :
       RegisterFindOne(c, a.username, a.email, a.password)
  \/ \E c \in OneClient : RegisterInsertOne(c)
  \/ \E b \in LoginBodies : Login(b.email, b.password)
  \/ \E h \in Headers : Profile(h)
  \/ \E c \in OneClient, h \in Headers, city \in Cities : WeatherCurrentFetch(c, h, city)
  \/ \E c \in OneClient, w \in UpstreamResponses : WeatherCurrentSave(c, w)
  \/ \E h \in Headers, p \in PageQueries, l \in LimitQueries : WeatherList(h, p, l)
  \/ \E h \in Headers, s \in SearchIds : WeatherDelete(h, s)
  \/ Deliver
  \/ Tick

Spec == Init /\ [][Next]_vars

(***************************************************************************)
(* The account routes alone, with every shape of request body and two      *)
(* handlers suspended at once.                                             *)
(***************************************************************************)
NextAuth ==
  \/ \E c \in Clients, b \in Bodies :
       RegisterFindOne(c, b.username, b.email, b.password)
  \/ \E c \in Clients : RegisterInsertOne(c)
  \/ \E b \in LoginBodies : Login(b.email, b.password)
  \/ \E h \in Headers : Profile(h)
  \/ Deliver
  \/ Tick

SpecAuth == Init /\ [][NextAuth]_vars

(***************************************************************************)
(* Properties.                                                             *)
(***************************************************************************)
ErrDuplicate == "User with this email or username already exists"
ErrLogin == "Invalid email or password"
ErrNotFound == "Weather search not found or unauthorized"

\* The header carries no token.
HasNoToken(h) == h = NoHeader \/ Len(h.parts) < 2

\* The token does not verify: its signature is not one the signing secret
\* makes over its payload, or it is TokenTTL days old.
FailsVerification(t) ==
  \/ t.kind # "jwt"
  \/ t.sig # Sign(t.payload, JwtSecret)
  \/ now >= t.payload.iat + TokenTTL

\* The header carries a token that verifies, of the user `userId`.
ValidTokenOf(h, userId) ==
  /\ ~HasNoToken(h)
  /\ ~FailsVerification(h.parts[2])
  /\ h.parts[2].payload.userId = userId

\* C1: a DELETE of a record of user B with a valid token of another user A
\* is answered 404 and leaves the record in the collection as it was.
C1_DeleteIsolation ==
  [][resp'.route = "delete" => \A r \in searches, h \in Headers :
       ( /\ ~HasNoToken(h)
         /\ ~FailsVerification(h.parts[2])
         /\ h.parts[2].payload.userId # r.userId
         /\ WeatherDelete(h, ToHexString(r._id)) )
       => (resp'.status = 404 /\ resp'.error = ErrNotFound /\ r \in searches')]_vars

C1_Witness ==
  /\ resp.route = "delete"
  /\ resp.status = 404
  /\ \E r \in searches :
       /\ resp.param = ToHexString(r._id)
       /\ resp.user # NoUser
       /\ resp.user.userId # r.userId

\* C2: no two user documents share an email and no two share a username.
C2_UniqueEmailAndUsername ==
  \A u \in users, v \in users :
    u # v => (u.email # v.email /\ u.username # v.username)

\* C3: for a user with N records and a limit L >= 1, every response reports
\* totalSearches = N and totalPages = ceil(N/L), and the pages 1..totalPages,
\* read from the same contents of the collection and joined in page order,
\* hold exactly the user's records, each once, newest first.
Concat(pages) ==
  LET RECURSIVE Join(_)
      Join(k) == IF k = 0 THEN << >> ELSE Join(k - 1) \o pages[k].searches
  IN  Join(Len(pages))

CeilOf(n, l) == CHOOSE k \in 0..n : k * l >= n /\ (k = 0 \/ (k - 1) * l < n)

C3_PaginationExact ==
  \A u \in users, l \in 1..MaxSearches :
    LET userId == ToHexString(u._id)
        mine == {r \in searches : r.userId = userId}
        n == Cardinality(mine)
        pagesOf == [p \in 1..CeilOf(n, l) |-> ListBodies(userId, p, l)]
    IN  \A pages \in [1..CeilOf(n, l) -> UNION {pagesOf[p] : p \in 1..CeilOf(n, l)}] :
          (\A p \in 1..CeilOf(n, l) : pages[p] \in pagesOf[p])
          => LET all == Concat(pages)
             IN  /\ \A p \in 1..CeilOf(n, l) :
                      pages[p].totalSearches = n /\ pages[p].totalPages = CeilOf(n, l)
                 /\ Len(all) = n
                 /\ {all[i] : i \in 1..Len(all)} = mine
                 /\ \A i, j \in 1..Len(all) :
                      i < j => all[i].timestamp >= all[j].timestamp

\* C4: on every protected route a request without a token is answered 401
\* and one whose token fails verification 403, the handler not running and
\* the collections unchanged; a handler that runs has req.user set to the
\* claims of the verified token.
Rejected(status) ==
  /\ resp'.status = status
  /\ resp'.user = NoUser
  /\ UNCHANGED <<users, searches, nextSearchId, inflight>>

RanAs(identity) ==
  /\ resp' # NoResponse => (resp'.user = identity /\ resp'.status \notin {401, 403})
  /\ \A c \in Clients :
       (inflight[c] = Idle /\ inflight'[c].op = "lookup") => inflight'[c].user = identity

Gate(h) ==
  IF HasNoToken(h) THEN Rejected(401)
  ELSE IF FailsVerification(h.parts[2]) THEN Rejected(403)
  ELSE RanAs(Identity(h.parts[2].payload))

C4_BearerGate ==
  [][(resp' # NoResponse \/ inflight' # inflight) => \A h \in Headers :
       \/ Gate(h)
       \/ ~( \/ resp'.route = "profile" /\ Profile(h)
             \/ (resp'.route = "current" \/ inflight' # inflight)
                  /\ \E c \in Clients, city \in Cities : WeatherCurrentFetch(c, h, city)
             \/ resp'.route = "list"
                  /\ \E p \in PageQueries, l \in LimitQueries : WeatherList(h, p, l)
             \/ resp'.route = "delete" /\ WeatherDelete(h, resp'.param) )]_vars

C4_Witness ==
  /\ resp.route = "delete"
  /\ resp.status = 403
  /\ searches # {}
  /\ \E u \in users : u.createdAt + TokenTTL <= now

\* C5: a registration with all three fields present and a password of at
\* least 6 characters, checked against a collection that holds a user with
\* the same email or the same username, is answered 400 (duplicate user),
\* inserts nothing and issues no token.
WellFormed(b) ==
  /\ Truthy(b.username) /\ Truthy(b.email) /\ Truthy(b.password)
  /\ b.password.type = "string"
  /\ Len(b.password.chars) >= MinPasswordLength

C5_DuplicateRejected ==
  [][(resp'.route = "register" \/ inflight' # inflight) =>
     \A c \in Clients, b \in Bodies :
       ( /\ WellFormed(b)
         /\ \E u \in users : u.email = b.email \/ u.username = b.username
         /\ RegisterFindOne(c, b.username, b.email, b.password) )
       => ( /\ resp'.status = 400
            /\ resp'.error = ErrDuplicate
            /\ resp'.token = NoToken
            /\ UNCHANGED <<users, inflight>> )]_vars

C5_Witness ==
  /\ resp.route = "register"
  /\ resp.status = 400
  /\ resp.error = ErrDuplicate
  /\ WellFormed(resp.param)
  /\ \E u \in users :
       u.username = resp.param.username /\ u.email # resp.param.email

\* C6: a login with email and password present is answered with the same
\* 401 and the same error body when the email matches no user and when it
\* matches a user whose password is another one; no token is issued.
WrongPasswordFor(password, u) ==
  ~(password.type = "string" /\ password.chars = u.password.bcrypt)

C6_LoginFailuresIndistinguishable ==
  [][\A b \in LoginBodies :
       ( /\ Truthy(b.email) /\ Truthy(b.password)
         /\ \A u \in users : u.email = b.email => WrongPasswordFor(b.password, u)
         /\ Login(b.email, b.password) )
       => ( /\ resp'.status = 401
            /\ resp'.error = ErrLogin
            /\ resp'.token = NoToken
            /\ resp'.body = NoBody )]_vars

\* C7: once a registration of (username, email, password) was answered 201,
\* a login with that email and password is answered 200 with a token that
\* verifies and carries the id, username and email of the registered user.
C7_LoginAfterRegister ==
  [][\A u \in users, b \in LoginBodies :
       ( /\ b.email = u.email
         /\ b.password.type = "string"
         /\ b.password.chars = u.password.bcrypt
         /\ Login(b.email, b.password) )
       => ( /\ resp'.status = 200
            /\ resp'.token # NoToken
            /\ ~FailsVerification(resp'.token)
            /\ Identity(resp'.token.payload) = Claims(u) )]_vars

\* C8: an upstream 404 is answered 404 and any other upstream failure 500,
\* neither inserting a document; a document is inserted only by a lookup
\* whose upstream call succeeded.
C8_FailedLookupInsertsNothing ==
  [][ /\ \A c \in Clients, w \in UpstreamResponses :
           (~w.ok /\ WeatherCurrentSave(c, w))
           => ( /\ resp'.status = IF w.status = 404 THEN 404 ELSE 500
                /\ searches' = searches )
      /\ ~(searches' \subseteq searches)
           => \E c \in Clients, w \in UpstreamResponses :
                w.ok /\ WeatherCurrentSave(c, w) ]_vars

C8_Witness ==
  /\ resp.route = "current"
  /\ resp.status = 404
  /\ resp.error = "City not found"
  /\ resp.user # NoUser

\* C9: a document of weather_searches stays in the collection, as it was
\* inserted, through every step but a DELETE of its id answered 200 under
\* a token of its owner; ids are never shared or reused.
C9_RecordsImmutable ==
  /\ [](\A r \in searches, q \in searches :
          (r._id = q._id => r = q) /\ r._id.oid < nextSearchId)
  /\ [][\A r \in searches :
          \/ r \in searches'
          \/ /\ resp'.route = "delete"
             /\ resp'.status = 200
             /\ resp'.param = ToHexString(r._id)
             /\ resp'.user # NoUser
             /\ resp'.user.userId = r.userId
             /\ \E h \in Headers :
                  ValidTokenOf(h, r.userId) /\ WeatherDelete(h, resp'.param)
             /\ \A q \in searches' : q._id # r._id]_vars

C9_Witness ==
  /\ resp.route = "delete"
  /\ resp.status = 200
  /\ \E r \in searches : r.userId = resp.user.userId
  /\ \A r \in searches : resp.param # ToHexString(r._id)

\* C10: of the DELETEs of one record's id under tokens of its owner, the
\* one that finds the record is answered 200 and removes it, every other
\* one is answered 404 and changes nothing: at most one 200 per id, and a
\* 200 exactly for the ids that left the collection.
C10_DeleteOnce ==
  /\ [](\A i \in 1..MaxSearches :
          /\ deleted200[i] <= 1
          /\ i < nextSearchId =>
               (deleted200[i] = 1 <=> \A r \in searches : r._id # ObjectId(i)))
  /\ [][resp'.route = "delete" => \A h \in Headers :
          ( /\ resp'.route = "delete"
            /\ ObjectIdIsValid(resp'.param)
            /\ ~HasNoToken(h)
            /\ ~FailsVerification(h.parts[2])
            /\ WeatherDelete(h, resp'.param) )
          => LET owned == {r \in searches :
                             /\ ToHexString(r._id) = resp'.param
                             /\ r.userId = h.parts[2].payload.userId}
             IN  IF owned # {}
                 THEN resp'.status = 200 /\ searches' = searches \ owned
                 ELSE /\ resp'.status = 404
                      /\ resp'.error = ErrNotFound
                      /\ UNCHANGED <<searches, deleted200>>]_vars

C10_Witness ==
  /\ resp.route = "delete"
  /\ resp.status = 404
  /\ ObjectIdIsValid(resp.param)
  /\ deleted200[resp.param.hex] = 1
====
